---- MODULE Spec2Model ----
(***************************************************************************)
(* GitHubSentinel: the report-generation core (src/llm.py), its            *)
(* construction at start-up (src/gradio_server.py), and the Hacker News    *)
(* client (src/hacker_news_client.py).                                     *)
(*                                                                         *)
(* Python strings are sequences of one-character strings, so that strip(), *)
(* lower() and concatenation are computed and not assumed.                 *)
(***************************************************************************)
EXTENDS Integers, Sequences, FiniteSets, TLC

(***************************************************************************)
(* Bounds of the model.                                                    *)
(***************************************************************************)
\* largest configured llm_max_retries explored (the smallest is -1)
MaxRetries == 2
\* longest task prompt explored by the prompt-composition specification
MaxLen == 3

(***************************************************************************)
(* Python values.                                                          *)
(***************************************************************************)
\* Python's None where a string may stand: a tuple no string equals
None == <<"None">>
SP == " "
NL == "\n"
Whitespace == {SP, NL}

\* bool(s) for s an Optional[str]
Truthy(s) == s # None /\ s # <<>>

\* the Python expression `a or b`
Or(a, b) == IF Truthy(a) THEN a ELSE b

RECURSIVE lstrip(_)
lstrip(s) ==
    IF s = <<>> THEN <<>>
    ELSE IF Head(s) \in Whitespace THEN lstrip(Tail(s)) ELSE s

RECURSIVE rstrip(_)
rstrip(s) ==
    IF s = <<>> THEN <<>>
    ELSE IF s[Len(s)] \in Whitespace THEN rstrip(SubSeq(s, 1, Len(s) - 1)) ELSE s

\* str.strip()
strip(s) == rstrip(lstrip(s))

lower_char(c) ==
    CASE c = "O" -> "o"
      [] c = "A" -> "a"
      [] c = "I" -> "i"
      [] c = "L" -> "l"
      [] OTHER -> c

\* str.lower()
lower(s) == [i \in 1..Len(s) |-> lower_char(s[i])]

\* getattr(obj, name, default) on an object whose attributes are the
\* fields of a record
getattr(obj, name, default) == IF name \in DOMAIN obj THEN obj[name] ELSE default

\* os.getenv(name) on the process environment
getenv(environ, name) == IF name \in DOMAIN environ THEN environ[name] ELSE None

(***************************************************************************)
(* Module constants of llm.py.                                             *)
(***************************************************************************)
\* the built-in persona block: four constraint bullets on lines of their
\* own, no leading or trailing whitespace
DEFAULT_SYSTEM_ROLE_BASE == <<"R", NL, "-", "a", NL, "-", "b", NL, "-", "c", NL, "-", "d">>

OPENAI == <<"o", "p", "e", "n", "a", "i">>
OLLAMA == <<"o", "l", "l", "a", "m", "a">>

\* an exception object: its class and the attempt that raised it (two
\* exceptions raised by two attempts are two objects); attempt 0 is
\* construction or the interpreter
Exc(kind, n) == [kind |-> kind, attempt |-> n]
NoError == Exc("None", 0)


(***************************************************************************)
(* Inputs: configurations, environments, prompts, backend responses.       *)
(***************************************************************************)
\* the generate_report activations that can be in progress at once (the two
\* UI actions of gradio_server.py each run one)
Requests == {1, 2}

\* values of config.llm_model_type
ModelTypes ==
    { OPENAI, <<"O", "p", "e", "n", "A", "I">>, OLLAMA, <<"g", "e", "m", "i", "n", "i">> }

\* values of config.llm_system_role_base
BaseOverrides == { None, <<>>, <<SP, NL>>, <<SP, "P", NL, "q", NL>> }

\* a Config object: a record of its attributes.  The bare one carries none
\* of the optional llm_* attributes, so every getattr default is taken.
FullConfig(t, m, b) ==
    [ llm_model_type |-> t, llm_max_retries |-> m, llm_system_role_base |-> b,
      ollama_api_url |-> <<"u", "r", "l">> ]
BareConfig(t) == [ llm_model_type |-> t, ollama_api_url |-> <<"u", "r", "l">> ]

Configs(types, retries, bases) ==
    { FullConfig(t, m, b) : t \in types, m \in retries, b \in bases }
        \cup { BareConfig(t) : t \in types }

\* the process environment: OPENAI_API_KEY unset, set to "", or set
Environs ==
    { [HOME |-> <<"/">>],
      [HOME |-> <<"/">>, OPENAI_API_KEY |-> <<>>],
      [HOME |-> <<"/">>, OPENAI_API_KEY |-> <<"s", "k">>] }

Alphabet == {SP, NL, "t"}
\* every string over Alphabet of at most n characters
StrsUpTo(n) == UNION { [1..k -> Alphabet] : k \in 0..n }

\* task prompts given to generate_report / _build_system_content
TaskPrompts == {None} \cup StrsUpTo(MaxLen)
FewTaskPrompts == { None, <<NL, SP>>, <<SP, "t", SP, "t", NL>> }
\* raw content given to generate_report
UserContents == { None, <<>>, <<"-", SP, "\"", "f", "\"", NL>> }

Faults == { "Timeout", "ConnectionError", "HTTPError", "JSONDecodeError" }
Texts == { <<"#", "r">>, <<"#", "s">> }
\* What the backend does with one request.  fault: the transport fails
\* (timeout, refused connection), answers a non-success status, or answers
\* a body that does not parse.  Otherwise the parsed body: its message is
\* absent, null, or an object whose content is absent/null (None), "" or text.
Responses ==
    { [fault |-> f, message |-> "absent", content |-> None] : f \in Faults }
        \cup { [fault |-> "none", message |-> m, content |-> None] : m \in {"absent", "null"} }
        \cup { [fault |-> "none", message |-> "dict", content |-> c] :
                   c \in {None, <<>>} \cup Texts }

(***************************************************************************)
(* State.                                                                  *)
(***************************************************************************)
VARIABLES
    config,         \* the Config object read at start-up
    environ,        \* the process environment
    startup,        \* gradio_server.py's module-level code: "booting", "serving", "halted"
    llm,            \* the LLM instance bound at gradio_server.py:15, or NoEngine
    init_error,     \* the exception LLM.__init__ raised, or NoError
    init_log,       \* the log records of LLM.__init__
    constructions,  \* how many times LLM(config) was evaluated
    gen,            \* gen[r]: the activation of generate_report run by request r
    prompt_file,    \* content of the dry-run prompt file, None while it does not exist
    hn              \* the activation of HackerNewsClient.get_top_stories

vars ==
    << config, environ, startup, llm, init_error, init_log, constructions, gen, prompt_file,
       hn >>

NoEngine == [ model |-> None ]
NoAnswer == [ fault |-> "unanswered", message |-> "absent", content |-> None ]

\* A generate_report activation: its position, arguments and locals, its
\* outcome, and what it did (network calls, sleeps, log records).
IdleFrame ==
    [ pc |-> "idle",            \* "idle", "call", "sleep", "returned", "raised"
      system_prompt |-> None, user_content |-> None,
      messages |-> <<>>, attempt |-> 0, last_error |-> NoError,
      ret |-> None, raised |-> NoError,
      dry_run |-> FALSE,        \* the call was made with dry-run enabled
      calls |-> 0,              \* network round-trips started
      inflight |-> 0,           \* network round-trips started and not yet answered
      sent |-> <<>>,            \* what each round-trip carried, in order
      answer |-> NoAnswer,      \* the response to the latest round-trip, once it is there
      errs |-> <<>>,            \* the exception of each failed attempt, in order
      sleeps |-> <<>>,          \* the duration of each time.sleep, in order
      log |-> <<>> ]            \* the records logged, in order

Log(level, src, n) == [ level |-> level, src |-> src, n |-> n ]

(***************************************************************************)
(* LLM.__init__ and the start-up code that calls it.                       *)
(***************************************************************************)
DefaultMaxRetries == 2
DefaultTimeout == 120
DefaultTemperature == <<"0", ".", "3">>

\* as LLM_init, without the credential check: the client is made with
\* whatever os.getenv returned
LLM_init_unchecked(cfg, env) ==
    LET model == lower(cfg.llm_model_type)
        base == getattr(cfg, "llm_system_role_base", None)
        fields ==
            [ model |-> model,
              _temperature |-> getattr(cfg, "llm_temperature", DefaultTemperature),
              _max_retries |-> getattr(cfg, "llm_max_retries", DefaultMaxRetries),
              _timeout |-> getattr(cfg, "llm_timeout_seconds", DefaultTimeout),
              _system_role_base |-> Or(strip(Or(base, <<>>)), DEFAULT_SYSTEM_ROLE_BASE),
              client |-> None, api_url |-> None ]
    IN  IF model = OPENAI
        THEN [ self |-> [fields EXCEPT !.client = getenv(env, "OPENAI_API_KEY")],
               error |-> NoError, log |-> <<>> ]
        ELSE IF model = OLLAMA
        THEN [ self |-> [fields EXCEPT !.api_url = cfg.ollama_api_url],
               error |-> NoError, log |-> <<>> ]
        ELSE [ self |-> NoEngine, error |-> Exc("ValueError", 0),
               log |-> << Log("error", "__init__", 0) >> ]

\* as LLM_init, taking the override as given (base or DEFAULT)
LLM_init_unstripped_base(cfg, env) ==
    LET model == lower(cfg.llm_model_type)
        base == getattr(cfg, "llm_system_role_base", None)
        fields ==
            [ model |-> model,
              _temperature |-> getattr(cfg, "llm_temperature", DefaultTemperature),
              _max_retries |-> getattr(cfg, "llm_max_retries", DefaultMaxRetries),
              _timeout |-> getattr(cfg, "llm_timeout_seconds", DefaultTimeout),
              _system_role_base |-> Or(base, DEFAULT_SYSTEM_ROLE_BASE),
              client |-> None, api_url |-> None ]
        api_key == getenv(env, "OPENAI_API_KEY")
        failed == [ self |-> NoEngine, error |-> Exc("ValueError", 0),
                    log |-> << Log("error", "__init__", 0) >> ]
    IN  IF model = OPENAI
        THEN IF ~Truthy(api_key)
             THEN failed
             ELSE [ self |-> [fields EXCEPT !.client = api_key], error |-> NoError, log |-> <<>> ]
        ELSE IF model = OLLAMA
        THEN [ self |-> [fields EXCEPT !.api_url = cfg.ollama_api_url],
               error |-> NoError, log |-> <<>> ]
        ELSE failed

\* LLM.__init__(config) in environment env: the instance it leaves, the
\* exception it raises (NoError when it returns) and what it logs
LLM_init(cfg, env) ==
    LET model == lower(cfg.llm_model_type)
        base == getattr(cfg, "llm_system_role_base", None)
        fields ==
            [ model |-> model,
              _temperature |-> getattr(cfg, "llm_temperature", DefaultTemperature),
              _max_retries |-> getattr(cfg, "llm_max_retries", DefaultMaxRetries),
              _timeout |-> getattr(cfg, "llm_timeout_seconds", DefaultTimeout),
              _system_role_base |-> Or(strip(Or(base, <<>>)), DEFAULT_SYSTEM_ROLE_BASE),
              client |-> None, api_url |-> None ]
        api_key == getenv(env, "OPENAI_API_KEY")
        failed == [ self |-> NoEngine, error |-> Exc("ValueError", 0),
                    log |-> << Log("error", "__init__", 0) >> ]
    IN  IF model = OPENAI
        THEN IF ~Truthy(api_key)
             THEN failed
             ELSE [ self |-> [fields EXCEPT !.client = api_key], error |-> NoError, log |-> <<>> ]
        ELSE IF model = OLLAMA
        THEN [ self |-> [fields EXCEPT !.api_url = cfg.ollama_api_url],
               error |-> NoError, log |-> <<>> ]
        ELSE failed

\* gradio_server.py, module level: llm = LLM(config), evaluated once; an
\* exception ends the import, so nothing is served
Startup ==
    /\ startup = "booting"
    /\ LET made == LLM_init(config, environ)
       IN  /\ llm' = made.self
           /\ init_error' = made.error
           /\ init_log' = init_log \o made.log
           /\ startup' = IF made.error = NoError THEN "serving" ELSE "halted"
    /\ constructions' = constructions + 1
    /\ UNCHANGED << config, environ, gen, prompt_file, hn >>

(***************************************************************************)
(* LLM._build_system_content                                               *)
(***************************************************************************)
SEPARATOR == << NL, NL, "-", "-", "-", NL, NL >>

\* as _build_system_content, testing the prompt without stripping it
_build_system_content_unstripped_test(self, task_prompt) ==
    IF ~Truthy(Or(task_prompt, <<>>))
    THEN self._system_role_base
    ELSE self._system_role_base \o SEPARATOR \o strip(task_prompt)

\* as _build_system_content, appending the prompt as given
_build_system_content_untrimmed(self, task_prompt) ==
    IF ~Truthy(strip(Or(task_prompt, <<>>)))
    THEN self._system_role_base
    ELSE self._system_role_base \o SEPARATOR \o task_prompt

_build_system_content(self, task_prompt) ==
    IF ~Truthy(strip(Or(task_prompt, <<>>)))
    THEN self._system_role_base
    ELSE self._system_role_base \o SEPARATOR \o strip(task_prompt)

(***************************************************************************)
(* The backend adapters: what one call does with the backend's response.   *)
(* Each returns [ok, value, error, log]: the value returned, or the class  *)
(* of the exception raised, and the records logged after the response.     *)
(***************************************************************************)
Returns(v, lg) == [ ok |-> TRUE, value |-> v, error |-> "None", log |-> lg ]
Raises(k, lg) == [ ok |-> FALSE, value |-> None, error |-> k, log |-> lg ]

_generate_report_openai(resp) ==
    IF resp.fault # "none"
    THEN Raises(resp.fault, <<>>)                       \* create() raises
    ELSE LET lg == << Log("debug", "_generate_report_openai", 0) >>
         IN  IF resp.message = "absent" THEN Raises("IndexError", lg)         \* choices[0]
             ELSE IF resp.message = "null" THEN Raises("AttributeError", lg)  \* .content of None
             ELSE Returns(resp.content, lg)

\* as _generate_report_ollama, testing the content against None only
_generate_report_ollama_not_none(resp) ==
    IF resp.fault # "none"
    THEN Raises(resp.fault, <<>>)
    ELSE LET lg == << Log("debug", "_generate_report_ollama", 0) >>
         IN  IF resp.message = "null" THEN Raises("AttributeError", lg)
             ELSE LET message_content ==
                          IF resp.message = "absent" THEN None ELSE resp.content
                  IN  IF message_content # None
                      THEN Returns(message_content, lg)
                      ELSE Raises("ValueError",
                                  lg \o << Log("error", "_generate_report_ollama", 0) >>)

_generate_report_ollama(resp) ==
    IF resp.fault \in {"Timeout", "ConnectionError"}
    THEN Raises(resp.fault, <<>>)                       \* requests.post raises
    ELSE IF resp.fault = "HTTPError"
    THEN Raises(resp.fault, <<>>)                       \* raise_for_status
    ELSE IF resp.fault = "JSONDecodeError"
    THEN Raises(resp.fault, <<>>)                       \* response.json()
    ELSE LET lg == << Log("debug", "_generate_report_ollama", 0) >>
         IN  IF resp.message = "null" THEN Raises("AttributeError", lg)  \* None.get
             ELSE LET message_content ==
                          IF resp.message = "absent" THEN None ELSE resp.content
                  IN  IF Truthy(message_content)
                      THEN Returns(message_content, lg)
                      ELSE Raises("ValueError",
                                  lg \o << Log("error", "_generate_report_ollama", 0) >>)

(***************************************************************************)
(* LLM.generate_report.  The activation is atomic between the points where *)
(* it blocks: the network call of an attempt, and time.sleep.              *)
(***************************************************************************)
\* lines 82-83: the loop is over; log the exhaustion and raise last_error
\* (raise None is a TypeError of the interpreter)
exhausted(self, f) ==
    [ f EXCEPT !.pc = "raised",
               !.log = @ \o << Log("error", "generate_report", self._max_retries + 1) >>,
               !.raised = IF f.last_error = NoError THEN Exc("TypeError", 0)
                          ELSE f.last_error ]

\* as on_failure, keeping the first error instead of the latest
on_failure_first(self, f, e) ==
    LET g == [ f EXCEPT !.last_error = IF @ = NoError THEN e ELSE @,
                        !.errs = @ \o << e >>,
                        !.log = @ \o << Log("warning", "generate_report", f.attempt + 1) >> ]
    IN  IF f.attempt < self._max_retries
        THEN [ g EXCEPT !.pc = "sleep", !.sleeps = @ \o << 1 * (f.attempt + 1) >> ]
        ELSE exhausted(self, g)

\* as on_failure, sleeping the same time after every failure
on_failure_constant(self, f, e) ==
    LET g == [ f EXCEPT !.last_error = e,
                        !.errs = @ \o << e >>,
                        !.log = @ \o << Log("warning", "generate_report", f.attempt + 1) >> ]
    IN  IF f.attempt < self._max_retries
        THEN [ g EXCEPT !.pc = "sleep", !.sleeps = @ \o << 1 >> ]
        ELSE exhausted(self, g)

\* as on_failure, warning only when another attempt follows
on_failure_quiet_last(self, f, e) ==
    LET g == [ f EXCEPT !.last_error = e, !.errs = @ \o << e >> ]
    IN  IF f.attempt < self._max_retries
        THEN [ g EXCEPT !.pc = "sleep", !.sleeps = @ \o << 1 * (f.attempt + 1) >>,
                        !.log = @ \o << Log("warning", "generate_report", f.attempt + 1) >> ]
        ELSE exhausted(self, g)

\* lines 77-81: the attempt f.attempt raised e
on_failure(self, f, e) ==
    LET g == [ f EXCEPT !.last_error = e,
                        !.errs = @ \o << e >>,
                        !.log = @ \o << Log("warning", "generate_report", f.attempt + 1) >> ]
    IN  IF f.attempt < self._max_retries
        THEN [ g EXCEPT !.pc = "sleep", !.sleeps = @ \o << 1 * (f.attempt + 1) >> ]
        ELSE exhausted(self, g)

\* as dispatch, sending the request a second time without waiting
dispatch_twice(self, f, to) ==
    LET request == [ to |-> to, messages |-> f.messages, temperature |-> self._temperature ]
    IN  [ f EXCEPT !.pc = "call",
                   !.calls = @ + 2,
                   !.inflight = @ + 2,
                   !.answer = NoAnswer,
                   !.sent = @ \o << request, request >>,
                   !.log = @ \o << Log("info", to, 0) >> ]

\* as dispatch, with the errors of the earlier attempts added to the messages
dispatch_history(self, f, to) ==
    [ f EXCEPT !.pc = "call",
               !.calls = @ + 1,
               !.inflight = @ + 1,
               !.answer = NoAnswer,
               !.sent = @ \o << [ to |-> to,
                                  messages |-> f.messages \o
                                      [ i \in 1..Len(f.errs) |->
                                          [ role |-> "assistant", content |-> <<"e">> ] ],
                                  temperature |-> self._temperature ] >>,
               !.log = @ \o << Log("info", to, 0) >> ]

\* the adapter up to its network call: the request leaves
dispatch(self, f, to) ==
    [ f EXCEPT !.pc = "call",
               !.calls = @ + 1,
               !.inflight = @ + 1,
               !.answer = NoAnswer,
               !.sent = @ \o << [ to |-> to, messages |-> f.messages,
                                  temperature |-> self._temperature ] >>,
               !.log = @ \o << Log("info", to, 0) >> ]

\* as iterate, with the loop over range(max_retries): one attempt short
iterate_short(self, f, n) ==
    IF n < self._max_retries
    THEN LET g == [ f EXCEPT !.attempt = n ]
         IN  IF self.model = OPENAI THEN dispatch(self, g, "_generate_report_openai")
             ELSE IF self.model = OLLAMA THEN dispatch(self, g, "_generate_report_ollama")
             ELSE on_failure(self, g, Exc("ValueError", n + 1))
    ELSE exhausted(self, f)

\* as iterate, with every retry sent to the other backend
iterate_fallback(self, f, n) ==
    IF n < self._max_retries + 1
    THEN LET g == [ f EXCEPT !.attempt = n ]
         IN  IF (self.model = OPENAI) = (n = 0)
             THEN dispatch(self, g, "_generate_report_openai")
             ELSE dispatch(self, g, "_generate_report_ollama")
    ELSE exhausted(self, f)

\* as iterate, with a loop that never ends by itself (while True)
iterate_forever(self, f, n) ==
    LET g == [ f EXCEPT !.attempt = n ]
    IN  IF self.model = OPENAI THEN dispatch(self, g, "_generate_report_openai")
        ELSE dispatch(self, g, "_generate_report_ollama")

\* lines 69-76: the loop takes up index n, if range(max_retries + 1) has it
iterate(self, f, n) ==
    IF n < self._max_retries + 1
    THEN LET g == [ f EXCEPT !.attempt = n ]
         IN  IF self.model = OPENAI THEN dispatch(self, g, "_generate_report_openai")
             ELSE IF self.model = OLLAMA THEN dispatch(self, g, "_generate_report_ollama")
             ELSE on_failure(self, g, Exc("ValueError", n + 1))
    ELSE exhausted(self, f)

\* lines 63-68: the message sequence and the empty retry state
enter(self, system_prompt, user_content) ==
    [ IdleFrame EXCEPT
        !.system_prompt = system_prompt,
        !.user_content = user_content,
        !.messages = << [ role |-> "system",
                          content |-> _build_system_content(self, system_prompt) ],
                        [ role |-> "user", content |-> Or(user_content, <<>>) ] >>,
        !.last_error = NoError ]

\* as answered, with the success value stored but not returned: the loop
\* goes on as after a failure
answered_no_return(self, f, resp) ==
    LET out == IF self.model = OPENAI THEN _generate_report_openai(resp)
               ELSE _generate_report_ollama(resp)
        g == [ f EXCEPT !.inflight = @ - 1, !.answer = resp, !.log = @ \o out.log ]
    IN  IF out.ok
        THEN IF f.attempt < self._max_retries
             THEN [ g EXCEPT !.pc = "sleep", !.ret = out.value ]
             ELSE [ g EXCEPT !.pc = "returned", !.ret = out.value ]
        ELSE on_failure(self, g, Exc(out.error, f.attempt + 1))

\* the adapter after its network call, and the try/except around it
answered(self, f, resp) ==
    LET out == IF self.model = OPENAI THEN _generate_report_openai(resp)
               ELSE _generate_report_ollama(resp)
        g == [ f EXCEPT !.inflight = @ - 1, !.answer = resp, !.log = @ \o out.log ]
    IN  IF out.ok
        THEN [ g EXCEPT !.pc = "returned", !.ret = out.value ]
        ELSE on_failure(self, g, Exc(out.error, f.attempt + 1))

\* request r calls llm.generate_report(system_prompt, user_content)
GenerateStart(r, system_prompt, user_content) ==
    /\ startup = "serving"
    /\ gen[r].pc = "idle"
    /\ gen' = [ gen EXCEPT ![r] = iterate(llm, enter(llm, system_prompt, user_content), 0) ]
    /\ UNCHANGED << config, environ, startup, llm, init_error, init_log, constructions,
                    prompt_file, hn >>

\* as Respond, with last_error kept on the shared LLM instance instead of
\* in the activation: a failure of one request is seen by all
Respond_shared_error(r, resp) ==
    /\ gen[r].pc = "call"
    /\ LET mine == answered(llm, gen[r], resp)
       IN  gen' = [ q \in Requests |->
                      IF q = r THEN mine
                      ELSE IF gen[q].pc \in {"call", "sleep"}
                      THEN [ gen[q] EXCEPT !.last_error = mine.last_error ]
                      ELSE gen[q] ]
    /\ UNCHANGED << config, environ, startup, llm, init_error, init_log, constructions,
                    prompt_file, hn >>

\* the backend answers the attempt in flight (or the transport gives up)
Respond(r, resp) ==
    /\ gen[r].pc = "call"
    /\ gen' = [ gen EXCEPT ![r] = answered(llm, gen[r], resp) ]
    /\ UNCHANGED << config, environ, startup, llm, init_error, init_log, constructions,
                    prompt_file, hn >>

\* time.sleep returns; the loop goes on with the next index
SleepEnd(r) ==
    /\ gen[r].pc = "sleep"
    /\ gen' = [ gen EXCEPT ![r] = iterate(llm, gen[r], gen[r].attempt + 1) ]
    /\ UNCHANGED << config, environ, startup, llm, init_error, init_log, constructions,
                    prompt_file, hn >>

\* the caller has the result or the exception; the activation is gone
Resolve(r) ==
    /\ gen[r].pc \in {"returned", "raised"}
    /\ gen' = [ gen EXCEPT ![r] = IdleFrame ]
    /\ UNCHANGED << config, environ, startup, llm, init_error, init_log, constructions,
                    prompt_file, hn >>

(***************************************************************************)
(* Dry-run mode (spec.md section 6): the call composes the message         *)
(* sequence, writes it as formatted JSON to the designated path and        *)
(* returns a sentinel, without any network call.  The JSON text is a       *)
(* sequence of tokens: punctuation, the two keys, and the characters of    *)
(* the strings, escaped.                                                   *)
(***************************************************************************)
DRY_RUN == <<"D", "R", "Y", " ", "R", "U", "N">>

RECURSIVE json_escape(_)
json_escape(s) ==
    IF s = <<>> THEN <<>>
    ELSE LET c == Head(s)
         IN  (IF c = NL THEN <<"\\", "n">>
              ELSE IF c \in {"\"", "\\"} THEN <<"\\", c>>
              ELSE <<c>>) \o json_escape(Tail(s))

json_string(s) == <<"\"">> \o json_escape(s) \o <<"\"">>

json_object(m) ==
    <<"{", "role", ":", "\"", m.role, "\"", ",", "content", ":">>
        \o json_string(m.content) \o <<"}">>

\* json.dump of a list of two messages
json_dump(messages) ==
    <<"[">> \o json_object(messages[1]) \o <<",">> \o json_object(messages[2]) \o <<"]">>

\* the string literal whose opening quote is just before index i of text t:
\* its value (acc so far) and the index after its closing quote
RECURSIVE json_read_string(_, _, _)
json_read_string(t, i, acc) ==
    IF t[i] = "\"" THEN [ value |-> acc, next |-> i + 1 ]
    ELSE IF t[i] = "\\"
    THEN json_read_string(t, i + 2, acc \o << IF t[i + 1] = "n" THEN NL ELSE t[i + 1] >>)
    ELSE json_read_string(t, i + 1, acc \o << t[i] >>)

\* the object that starts at index i of text t, and the index after it
json_read_object(t, i) ==
    LET content == json_read_string(t, i + 10, <<>>)
    IN  [ value |-> [ role |-> t[i + 4], content |-> content.value ],
          next |-> content.next + 1 ]

\* json.load of a text written by json_dump
json_load(t) ==
    LET first == json_read_object(t, 2)
        second == json_read_object(t, first.next + 1)
    IN  << first.value, second.value >>

\* as generate_report_dry_run, writing the strings unescaped
generate_report_dry_run_raw(self, system_prompt, user_content) ==
    LET f == enter(self, system_prompt, user_content)
        raw(m) == <<"{", "role", ":", "\"", m.role, "\"", ",", "content", ":", "\"">>
                      \o m.content \o <<"\"", "}">>
    IN  [ frame |-> [ f EXCEPT !.pc = "returned", !.dry_run = TRUE, !.ret = DRY_RUN,
                               !.log = @ \o << Log("info", "generate_report", 0),
                                               Log("debug", "generate_report", 0) >> ],
          file |-> <<"[">> \o raw(f.messages[1]) \o <<",">> \o raw(f.messages[2]) \o <<"]">> ]

generate_report_dry_run(self, system_prompt, user_content) ==
    LET f == enter(self, system_prompt, user_content)
    IN  [ frame |-> [ f EXCEPT !.pc = "returned", !.dry_run = TRUE, !.ret = DRY_RUN,
                               !.log = @ \o << Log("info", "generate_report", 0),
                                               Log("debug", "generate_report", 0) >> ],
          file |-> json_dump(f.messages) ]

\* request r calls generate_report with dry-run enabled
GenerateDryRun(r, system_prompt, user_content) ==
    /\ startup = "serving"
    /\ gen[r].pc = "idle"
    /\ LET done == generate_report_dry_run(llm, system_prompt, user_content)
       IN  /\ gen' = [ gen EXCEPT ![r] = done.frame ]
           /\ prompt_file' = done.file
    /\ UNCHANGED << config, environ, startup, llm, init_error, init_log, constructions, hn >>

(***************************************************************************)
(* HackerNewsClient.get_top_stories.  The activation is atomic between its *)
(* network calls: the ID list, then one item per ID.                       *)
(***************************************************************************)
\* largest number of stories the server lists, and largest limit asked for
MaxStories == 3

StoryIds == 1..MaxStories

\* the lists of distinct story IDs
IdLists ==
    { q \in UNION { [1..k -> StoryIds] : k \in 0..MaxStories } :
        \A i, j \in 1..Len(q) : i # j => q[i] # q[j] }

\* what the server may answer for item i: a story with every field, one
\* with title and url only, one without url, one without title
ItemsOf(i) ==
    { [ id |-> i, title |-> <<"T">>, url |-> <<"U">>, score |-> <<"7">>, by |-> <<"p">>,
        time |-> <<"9">>, descendants |-> 2 ],
      [ id |-> i, title |-> <<"T">>, url |-> <<"U">> ],
      [ id |-> i, title |-> <<"T">>, score |-> <<"7">> ],
      [ id |-> i, url |-> <<"U">>, score |-> <<"7">> ] }

HNFaults == { "Timeout", "HTTPError" }

\* answers to the two kinds of request: the request fails (fault), or the
\* parsed body is null, or it is the list / the item
IdsResponses ==
    { [ fault |-> f, body |-> "null", ids |-> <<>> ] : f \in HNFaults }
        \cup { [ fault |-> "none", body |-> "null", ids |-> <<>> ] }
        \cup { [ fault |-> "none", body |-> "list", ids |-> q ] : q \in IdLists }

ItemResponses(i) ==
    { [ fault |-> f, body |-> "null", item |-> [ id |-> i ] ] : f \in HNFaults }
        \cup { [ fault |-> "none", body |-> "null", item |-> [ id |-> i ] ] }
        \cup { [ fault |-> "none", body |-> "dict", item |-> d ] : d \in ItemsOf(i) }

HNIdle ==
    [ pc |-> "idle",        \* "idle", "ids", "item", "returned", "raised"
      limit |-> 0, story_ids |-> <<>>, stories |-> <<>>,
      k |-> 0,              \* how many of story_ids the loop has taken up
      ret |-> <<>>, raised |-> NoError,
      caught |-> NoError,   \* the exception the except block caught
      listed |-> <<>>,      \* the ID list the server answered
      fetched |-> <<>>,     \* the IDs whose items were requested, in order
      items |-> <<>>,       \* the items received, in order
      log |-> <<>> ]

\* seq[:limit]
slice_to(seq, limit) ==
    IF limit >= 0
    THEN SubSeq(seq, 1, IF limit < Len(seq) THEN limit ELSE Len(seq))
    ELSE SubSeq(seq, 1, IF Len(seq) + limit > 0 THEN Len(seq) + limit ELSE 0)

\* lines 29-37: the dict appended for a story
story_of(story) ==
    [ id |-> getattr(story, "id", None),
      title |-> getattr(story, "title", None),
      url |-> getattr(story, "url", None),
      score |-> getattr(story, "score", None),
      by |-> getattr(story, "by", None),
      time |-> getattr(story, "time", None),
      descendants |-> getattr(story, "descendants", 0) ]

\* as hn_except, returning what was collected so far
hn_except_partial(h, kind) ==
    [ h EXCEPT !.pc = "returned", !.caught = Exc(kind, 0), !.ret = h.stories,
               !.log = @ \o << Log("error", "get_top_stories", 0) >> ]

\* lines 41-43: the except block
hn_except(h, kind) ==
    [ h EXCEPT !.pc = "returned", !.caught = Exc(kind, 0), !.ret = <<>>,
               !.log = @ \o << Log("error", "get_top_stories", 0) >> ]

\* lines 21-23 and 39-40: the loop takes up the next ID and requests its
\* item, or is over and the stories are returned
hn_loop(h) ==
    IF h.k < Len(h.story_ids)
    THEN [ h EXCEPT !.pc = "item", !.k = @ + 1,
                    !.fetched = @ \o << h.story_ids[h.k + 1] >> ]
    ELSE [ h EXCEPT !.pc = "returned", !.ret = h.stories,
                    !.log = @ \o << Log("info", "get_top_stories", Len(h.stories)) >> ]

\* lines 16-20: the answer to the ID list request
hn_ids(h, resp) ==
    IF resp.fault # "none" THEN hn_except(h, resp.fault)
    ELSE IF resp.body = "null" THEN hn_except(h, "TypeError")     \* None[:limit]
    ELSE hn_loop([ h EXCEPT !.listed = resp.ids,
                            !.story_ids = slice_to(resp.ids, h.limit),
                            !.stories = <<>> ])

\* lines 23-37: the answer to an item request
hn_item(h, resp) ==
    IF resp.fault # "none" THEN hn_except(h, resp.fault)
    ELSE IF resp.body = "null" THEN hn_except(h, "TypeError")     \* "title" in None
    ELSE LET story == resp.item
             g == [ h EXCEPT !.items = @ \o << story >> ]
         IN  IF "title" \in DOMAIN story /\ "url" \in DOMAIN story
             THEN hn_loop([ g EXCEPT !.stories = @ \o << story_of(story) >> ])
             ELSE hn_loop(g)

\* get_top_stories(limit) is called: the ID list is requested
GetTopStories(limit) ==
    /\ hn.pc = "idle"
    /\ hn' = [ HNIdle EXCEPT !.pc = "ids", !.limit = limit ]
    /\ UNCHANGED << config, environ, startup, llm, init_error, init_log, constructions, gen,
                    prompt_file >>

IdsAnswered(resp) ==
    /\ hn.pc = "ids"
    /\ hn' = hn_ids(hn, resp)
    /\ UNCHANGED << config, environ, startup, llm, init_error, init_log, constructions, gen,
                    prompt_file >>

ItemAnswered(resp) ==
    /\ hn.pc = "item"
    /\ resp.item.id = hn.story_ids[hn.k]      \* the answer is to the request made
    /\ hn' = hn_item(hn, resp)
    /\ UNCHANGED << config, environ, startup, llm, init_error, init_log, constructions, gen,
                    prompt_file >>

\* the caller has the list
StoriesTaken ==
    /\ hn.pc \in {"returned", "raised"}
    /\ hn' = HNIdle
    /\ UNCHANGED << config, environ, startup, llm, init_error, init_log, constructions, gen,
                    prompt_file >>

(***************************************************************************)
(* Specifications.                                                         *)
(***************************************************************************)
InitFrom(cfgs, envs) ==
    /\ config \in cfgs
    /\ environ \in envs
    /\ startup = "booting"
    /\ llm = NoEngine
    /\ init_error = NoError
    /\ init_log = <<>>
    /\ constructions = 0
    /\ gen = [ r \in Requests |-> IdleFrame ]
    /\ prompt_file = None
    /\ hn = HNIdle

InitWith(cfgs) == InitFrom(cfgs, Environs)

\* one request at a time; every model type and retry bound, with the base
\* block overridden (full configurations) or defaulted (bare ones)
Init == InitWith(Configs(ModelTypes, -1..MaxRetries, {<<SP, "P", NL, "q", NL>>}))

Next ==
    \/ Startup
    \/ \E sp \in FewTaskPrompts, uc \in UserContents : GenerateStart(1, sp, uc)
    \/ \E sp \in FewTaskPrompts, uc \in UserContents : GenerateDryRun(1, sp, uc)
    \/ \E resp \in Responses : Respond(1, resp)
    \/ SleepEnd(1)
    \/ Resolve(1)

Spec == Init /\ [][Next]_vars

\* prompt composition: every task prompt and every base override, one
\* backend and few retries
InitCompose == InitWith(Configs({OLLAMA}, {0}, BaseOverrides))

NextCompose ==
    \/ Startup
    \/ \E tp \in TaskPrompts, uc \in {None, <<"u">>} : GenerateStart(1, tp, uc)
    \/ \E resp \in Responses : Respond(1, resp)
    \/ Resolve(1)

SpecCompose == InitCompose /\ [][NextCompose]_vars

\* the two UI actions at once: both requests, each with its own
\* prompts, one retry, the responses that tell the outcomes apart
InitConc == InitWith({ FullConfig(t, 1, None) : t \in {OPENAI, OLLAMA} })

FewResponses ==
    { resp \in Responses :
        \/ resp.fault \in {"Timeout", "HTTPError"}
        \/ resp.fault = "none" /\ resp.message = "dict" /\ resp.content # <<>> }

PromptsOf(r) == IF r = 1 THEN { None, <<SP, "t", SP, "t", NL>> } ELSE { <<NL, SP>>, <<"t">> }

NextConc ==
    \/ Startup
    \/ \E r \in Requests : \E sp \in PromptsOf(r), uc \in {None, <<"u">>} :
           GenerateStart(r, sp, uc)
    \/ \E r \in Requests : \E resp \in FewResponses : Respond(r, resp)
    \/ \E r \in Requests : SleepEnd(r)
    \/ \E r \in Requests : Resolve(r)

SpecConc == InitConc /\ [][NextConc]_vars

\* one request whose network calls are all answered (the transport's
\* timeout bounds each) and whose sleeps all end
InitLive == InitWith(Configs({OPENAI, OLLAMA}, -1..MaxRetries, {None}))

NextLive ==
    \/ Startup
    \/ \E sp \in {None, <<"t">>} : GenerateStart(1, sp, <<"u">>)
    \/ \E resp \in FewResponses : Respond(1, resp)
    \/ SleepEnd(1)
    \/ Resolve(1)

SpecLive ==
    /\ InitLive
    /\ [][NextLive]_vars
    /\ WF_vars(\E resp \in FewResponses : Respond(1, resp))
    /\ WF_vars(SleepEnd(1))

\* the Hacker News client alone
InitHN == InitFrom({ BareConfig(OLLAMA) }, { [HOME |-> <<"/">>] })

NextHN ==
    \/ \E limit \in 0..MaxStories : GetTopStories(limit)
    \/ \E resp \in IdsResponses : IdsAnswered(resp)
    \/ \E i \in StoryIds : \E resp \in ItemResponses(i) : ItemAnswered(resp)
    \/ StoriesTaken

SpecHN == InitHN /\ [][NextHN]_vars

(***************************************************************************)
(* Properties.                                                             *)
(***************************************************************************)
\* the message sequence generate_report(system_prompt, user_content) is to send
ComposedMessages(f) ==
    << [ role |-> "system", content |-> _build_system_content(llm, f.system_prompt) ],
       [ role |-> "user",
         content |-> IF f.user_content = None THEN <<>> ELSE f.user_content ] >>

StrictlyIncreasing(q) == \A i, j \in 1..Len(q) : i < j => q[i] < q[j]

\* the backend produced a report text
Succeeded(resp) == resp.fault = "none" /\ resp.message = "dict" /\ resp.content \in Texts

\* the transport succeeded and the response has no content field
NoContentField(resp) ==
    resp.fault = "none" /\ (resp.message # "dict" \/ resp.content = None)

\* C1: with max_retries >= 0 a call never makes more than max_retries + 1
\* attempts; once max_retries + 1 attempts have failed it has raised; and a
\* call that raised made exactly max_retries + 1 attempts, all failed, and
\* slept exactly max_retries times, for strictly increasing durations.
C1_ExhaustionCounts ==
    \A r \in Requests :
        LET f == gen[r]
        IN  (startup = "serving" /\ llm._max_retries >= 0 /\ ~f.dry_run) =>
                /\ f.calls <= llm._max_retries + 1
                /\ (Len(f.errs) = llm._max_retries + 1 => f.pc = "raised")
                /\ (f.pc = "raised" =>
                        /\ f.calls = llm._max_retries + 1
                        /\ Len(f.errs) = llm._max_retries + 1
                        /\ Len(f.sleeps) = llm._max_retries
                        /\ StrictlyIncreasing(f.sleeps))

C1_Witness ==
    \E r \in Requests :
        /\ gen[r].pc = "raised"
        /\ llm._max_retries >= 2
        /\ Len(gen[r].sleeps) = llm._max_retries
        /\ gen[r].calls = llm._max_retries + 1

\* C2 (state): when the latest attempt got a report text, the call has
\* returned exactly that text, the attempts before it all failed (k
\* failures, k sleeps, k + 1 round-trips, k <= max_retries) and nothing is
\* in flight.
C2_ReturnedState ==
    \A r \in Requests :
        LET f == gen[r]
        IN  Succeeded(f.answer) =>
                /\ f.pc = "returned"
                /\ f.ret = f.answer.content
                /\ f.attempt = Len(f.errs)
                /\ f.calls = Len(f.errs) + 1
                /\ Len(f.sleeps) = Len(f.errs)
                /\ Len(f.errs) <= llm._max_retries
                /\ f.inflight = 0

\* C2 (step): a call that has returned does nothing more: its activation
\* only ends.
C2_ReturnedStep ==
    \A r \in Requests :
        gen[r].pc = "returned" => gen'[r] \in { gen[r], IdleFrame }

\* C2: if the backend fails k times and then succeeds, generate returns the
\* text of the successful attempt after k retries (k + 1 attempts), and no
\* attempt and no sleep follows the successful attempt.
C2_SuccessAfterFailures == []C2_ReturnedState /\ [][C2_ReturnedStep]_vars

C2_Witness ==
    \E r \in Requests :
        /\ gen[r].pc = "returned"
        /\ Succeeded(gen[r].answer)
        /\ Len(gen[r].errs) = 2
        /\ gen[r].errs[1].kind # gen[r].errs[2].kind

\* C3: when every attempt of a call has failed, the exception the caller
\* gets is the exception of the final attempt, and of no earlier attempt.
C3_RaisesLastError ==
    \A r \in Requests :
        LET f == gen[r]
        IN  (f.pc = "raised" /\ Len(f.errs) > 0) =>
                /\ f.raised = f.errs[Len(f.errs)]
                /\ f.raised.attempt = f.calls
                /\ \A i \in 1..(Len(f.errs) - 1) : f.raised # f.errs[i]

C3_Witness ==
    \E r \in Requests :
        /\ gen[r].pc = "raised"
        /\ Len(gen[r].errs) >= 3
        /\ gen[r].errs[1].kind # gen[r].errs[3].kind
        /\ gen[r].errs[2].kind # gen[r].errs[3].kind

\* C4: an attempt is one network round-trip and the attempts of a call are
\* sequential: at most one round-trip is in flight, and only while the call
\* waits for it; the round-trips started are the failed attempts, the one
\* in flight and the one that returned; attempt n + 1 is in flight only
\* after n failures and n finished sleeps.
C4_SequentialAttempts ==
    \A r \in Requests :
        LET f == gen[r]
        IN  /\ f.inflight \in {0, 1}
            /\ (f.inflight = 1 <=> f.pc = "call")
            /\ f.calls = Len(f.sent)
            /\ f.calls = Len(f.errs) + f.inflight
                           + (IF f.pc = "returned" /\ ~f.dry_run THEN 1 ELSE 0)
            /\ (f.pc \in {"call", "sleep", "returned"} /\ ~f.dry_run => f.calls = f.attempt + 1)
            /\ (f.pc = "call" => Len(f.errs) = f.attempt /\ Len(f.sleeps) = f.attempt)
            /\ (f.pc = "sleep" => Len(f.errs) = f.attempt + 1 /\ Len(f.sleeps) = f.attempt + 1)

C4_Witness ==
    \E r \in Requests :
        gen[r].pc = "call" /\ gen[r].attempt = 2 /\ Len(gen[r].sleeps) = 2

\* C5: every round-trip of a call carries the same two messages: the system
\* message with the composed system prompt, then the user message with the
\* raw content ("" for None); nothing of earlier attempts or calls is added.
C5_SameMessagesEveryAttempt ==
    \A r \in Requests :
        LET f == gen[r]
        IN  /\ f.pc # "idle" => f.messages = ComposedMessages(f)
            /\ \A i \in 1..Len(f.sent) :
                   /\ f.sent[i].messages = ComposedMessages(f)
                   /\ Len(f.sent[i].messages) = 2

C5_Witness ==
    \E r \in Requests :
        /\ Len(gen[r].sent) = 3
        /\ gen[r].user_content = None
        /\ gen[r].system_prompt # None

\* C6: in both variants a response without a content field is a failed
\* attempt, recorded and retried like a transport failure, and is never
\* returned as the report.
C6_NoContentIsAFailure ==
    \A r \in Requests :
        LET f == gen[r]
        IN  NoContentField(f.answer) =>
                /\ f.pc # "returned"
                /\ Len(f.errs) = f.attempt + 1

\* C6 on the ollama variant alone, where it holds
C6_Ollama ==
    \A r \in Requests :
        LET f == gen[r]
        IN  (NoContentField(f.answer) /\ llm.model = OLLAMA) =>
                /\ f.pc # "returned"
                /\ Len(f.errs) = f.attempt + 1

\* C7: when the model type is openai and OPENAI_API_KEY is unset or empty,
\* the one construction fails with the configuration error, no instance
\* is bound, nothing is served, and no call or round-trip ever happens.
C7_NoCredentialHaltsStartup ==
    (/\ startup # "booting"
     /\ lower(config.llm_model_type) = OPENAI
     /\ getenv(environ, "OPENAI_API_KEY") \in {None, <<>>}) =>
        /\ startup = "halted"
        /\ llm = NoEngine
        /\ init_error = Exc("ValueError", 0)
        /\ constructions = 1
        /\ \A r \in Requests : gen[r] = IdleFrame

C7_Witness ==
    /\ startup = "halted"
    /\ config.llm_model_type = <<"O", "p", "e", "n", "A", "I">>
    /\ getenv(environ, "OPENAI_API_KEY") = None
    /\ constructions = 1

\* the prompt is None, empty or made of whitespace only
Blank(task_prompt) ==
    task_prompt = None \/ \A i \in 1..Len(task_prompt) : task_prompt[i] \in Whitespace

\* a non-blank prompt from its first to its last non-whitespace character
Trimmed(task_prompt) ==
    LET solid == { i \in 1..Len(task_prompt) : task_prompt[i] \notin Whitespace }
        first == CHOOSE i \in solid : \A j \in solid : i <= j
        last == CHOOSE i \in solid : \A j \in solid : j <= i
    IN  SubSeq(task_prompt, first, last)

IsPrefix(p, q) == Len(p) <= Len(q) /\ SubSeq(q, 1, Len(p)) = p
IsSuffix(p, q) == Len(p) <= Len(q) /\ SubSeq(q, Len(q) - Len(p) + 1, Len(q)) = p

\* C8: for a task prompt that is None, empty or whitespace-only, the
\* composed system content is exactly the base persona block.
C8_BlankPromptGivesBase ==
    \A r \in Requests :
        LET f == gen[r]
        IN  (f.pc # "idle" /\ Blank(f.system_prompt)) =>
                f.messages[1].content = llm._system_role_base

C8_Witness ==
    \E r \in Requests :
        /\ gen[r].pc # "idle"
        /\ gen[r].system_prompt = <<SP, NL, SP>>
        /\ llm._system_role_base = <<"P", NL, "q">>

\* C9: for a task prompt with a non-whitespace character, the composed
\* system content is the base block, then blank line, "---", blank line,
\* then the prompt without its leading and trailing whitespace; the base
\* block is a strict prefix of it and the trimmed prompt a strict suffix.
C9_PromptAppendedTrimmed ==
    \A r \in Requests :
        LET f == gen[r]
            content == f.messages[1].content
        IN  (f.pc # "idle" /\ ~Blank(f.system_prompt)) =>
                /\ content = llm._system_role_base \o <<NL, NL, "-", "-", "-", NL, NL>>
                                 \o Trimmed(f.system_prompt)
                /\ IsPrefix(llm._system_role_base, content)
                /\ IsSuffix(Trimmed(f.system_prompt), content)
                /\ Len(content) > Len(llm._system_role_base)
                /\ Len(content) > Len(Trimmed(f.system_prompt))

C9_Witness ==
    \E r \in Requests :
        /\ gen[r].pc # "idle"
        /\ gen[r].system_prompt = <<NL, "t", SP>>
        /\ gen[r].messages[1].content = DEFAULT_SYSTEM_ROLE_BASE \o SEPARATOR \o <<"t">>

\* C10: a call made with dry-run enabled makes no network round-trip,
\* leaves at the designated path a JSON text that parses to the composed
\* message sequence, and returns the sentinel, which is no report text.
C10_DryRun ==
    \A r \in Requests :
        LET f == gen[r]
        IN  f.dry_run =>
                /\ f.pc = "returned"
                /\ f.calls = 0 /\ f.sent = <<>> /\ f.inflight = 0
                /\ f.messages = ComposedMessages(f)
                /\ prompt_file # None
                /\ json_load(prompt_file) = f.messages
                /\ f.ret = DRY_RUN
                /\ f.ret \notin Texts

C10_Witness ==
    \E r \in Requests :
        /\ gen[r].dry_run
        /\ gen[r].user_content = <<"-", SP, "\"", "f", "\"", NL>>
        /\ gen[r].system_prompt = <<SP, "t", SP, "t", NL>>
        /\ prompt_file # None

\* the adapter method the variant chosen by config.llm_model_type runs
ConfiguredAdapter ==
    IF lower(config.llm_model_type) = OPENAI THEN "_generate_report_openai"
    ELSE "_generate_report_ollama"

\* C12: the variant is the one the configuration names, from construction
\* on: an unsupported model type fails the one construction (no instance,
\* nothing served, no call), and every round-trip of every call of a
\* constructed engine goes to the adapter of the configured variant.
C12_VariantFixedAtConstruction ==
    /\ (startup # "booting" /\ lower(config.llm_model_type) \notin {OPENAI, OLLAMA}) =>
           /\ startup = "halted"
           /\ llm = NoEngine
           /\ init_error = Exc("ValueError", 0)
           /\ constructions = 1
           /\ \A r \in Requests : gen[r] = IdleFrame
    /\ startup = "serving" =>
           /\ llm.model = lower(config.llm_model_type)
           /\ llm.model \in {OPENAI, OLLAMA}
           /\ \A r \in Requests : \A i \in 1..Len(gen[r].sent) :
                  gen[r].sent[i].to = ConfiguredAdapter

C12_Witness ==
    \E r \in Requests :
        /\ config.llm_model_type = <<"O", "p", "e", "n", "A", "I">>
        /\ Len(gen[r].sent) = 3
        /\ gen[r].pc = "raised"

\* C13: the sleep after the n-th failed attempt lasts n time units; a call
\* has slept once per failure while it waits, retries or has returned, and
\* once less when it has raised: no sleep before the first attempt, after a
\* success or after the final failure.
C13_LinearBackoff ==
    \A r \in Requests :
        LET f == gen[r]
        IN  /\ \A i \in 1..Len(f.sleeps) : f.sleeps[i] = 1 * i
            /\ (f.pc = "call" /\ f.attempt = 0 => f.sleeps = <<>>)
            /\ (f.pc \in {"call", "sleep", "returned"} => Len(f.sleeps) = Len(f.errs))
            /\ (f.pc = "sleep" => Len(f.errs) <= llm._max_retries)
            /\ (f.pc = "raised" /\ Len(f.errs) > 0 => Len(f.sleeps) = Len(f.errs) - 1)
            /\ (f.pc = "raised" /\ Len(f.errs) = 0 => f.sleeps = <<>>)

C13_Witness ==
    \E r \in Requests :
        gen[r].pc = "raised" /\ gen[r].sleeps = <<1, 2>> /\ Len(gen[r].errs) = 3

IsWarning(x) == x.level = "warning" /\ x.src = "generate_report"
IsExhaustionError(x) == x.level = "error" /\ x.src = "generate_report"

\* C14: a call logs one warning per failed attempt, the i-th carrying
\* attempt index i, and it is logged by the time the sleep of that attempt
\* runs; it logs the exhaustion error exactly once when it raises, as its
\* last record, after the last warning; a call that has not raised (one
\* that returned in particular) has logged no exhaustion error.
C14_Logging ==
    \A r \in Requests :
        LET f == gen[r]
            warnings == SelectSeq(f.log, IsWarning)
            exhaustions == SelectSeq(f.log, IsExhaustionError)
        IN  /\ Len(warnings) = Len(f.errs)
            /\ \A i \in 1..Len(warnings) : warnings[i].n = i /\ f.errs[i].attempt = i
            /\ Len(exhaustions) = (IF f.pc = "raised" THEN 1 ELSE 0)
            /\ (f.pc = "sleep" =>
                    /\ IsWarning(f.log[Len(f.log)])
                    /\ f.log[Len(f.log)].n = Len(f.sleeps))
            /\ (f.pc = "raised" =>
                    /\ IsExhaustionError(f.log[Len(f.log)])
                    /\ f.log[Len(f.log)].n = llm._max_retries + 1
                    /\ (Len(f.errs) > 0 => IsWarning(f.log[Len(f.log) - 1])))

C14_Witness ==
    \E r \in Requests :
        /\ gen[r].pc = "raised"
        /\ Len(gen[r].errs) = 3
        /\ \E i \in 1..Len(gen[r].log) :
               gen[r].log[i] = Log("error", "_generate_report_ollama", 0)

\* C16: the base persona block of a constructed engine is the configured
\* override without its surrounding whitespace when the override has a
\* non-whitespace character, and the built-in block when the override is
\* absent, None, empty or whitespace-only; it stays so whatever is called,
\* and every composed system content starts with it.
C16_BaseFixedAtConstruction ==
    startup = "serving" =>
        /\ llm._system_role_base =
               IF "llm_system_role_base" \in DOMAIN config
                      /\ ~Blank(config.llm_system_role_base)
               THEN Trimmed(config.llm_system_role_base)
               ELSE DEFAULT_SYSTEM_ROLE_BASE
        /\ \A r \in Requests :
               gen[r].pc # "idle" => IsPrefix(llm._system_role_base, gen[r].messages[1].content)

C16_Witness ==
    \E r \in Requests :
        /\ startup = "serving"
        /\ "llm_system_role_base" \in DOMAIN config
        /\ config.llm_system_role_base = <<SP, "P", NL, "q", NL>>
        /\ llm._system_role_base = <<"P", NL, "q">>
        /\ gen[r].pc = "returned"
        /\ gen[r].system_prompt = <<"t", SP, "t">>

\* C17: for every max_retries, a call that ends in failure has made at
\* least one attempt and raises the exception of one of its own attempts.
C17_FailureComesFromAnAttempt ==
    \A r \in Requests :
        LET f == gen[r]
        IN  f.pc = "raised" =>
                /\ f.calls >= 1
                /\ \E i \in 1..Len(f.errs) : f.raised = f.errs[i]

\* C17 for max_retries >= 0, where it holds
C17_NonNegative ==
    \A r \in Requests :
        LET f == gen[r]
        IN  (f.pc = "raised" /\ llm._max_retries >= 0) =>
                /\ f.calls >= 1
                /\ \E i \in 1..Len(f.errs) : f.raised = f.errs[i]

\* the response carries a non-empty message.content
HasContent(resp) == resp.fault = "none" /\ resp.message = "dict" /\ Truthy(resp.content)

\* C18: on the ollama variant a call that returned gives the non-empty
\* message.content of the response to its last round-trip; a response
\* whose message or content is absent, null or "" is a failed attempt:
\* recorded, warned about, and followed by a sleep and a retry while
\* attempts remain.
C18_OllamaReturnsContent ==
    \A r \in Requests :
        LET f == gen[r]
        IN  (startup = "serving" /\ llm.model = OLLAMA /\ ~f.dry_run) =>
                /\ (f.pc = "returned" =>
                        /\ HasContent(f.answer)
                        /\ f.ret = f.answer.content
                        /\ f.ret # <<>> /\ f.ret # None
                        /\ f.calls = Len(f.sent) /\ f.calls = f.attempt + 1)
                /\ (f.answer.fault = "none" /\ ~HasContent(f.answer) =>
                        /\ f.pc \in {"sleep", "raised"}
                        /\ Len(f.errs) = f.attempt + 1
                        /\ f.last_error.kind \in {"ValueError", "AttributeError"}
                        /\ f.last_error.attempt = f.attempt + 1
                        /\ (f.pc = "sleep" <=> f.attempt < llm._max_retries))

C18_Witness ==
    \E r \in Requests :
        /\ llm.model = OLLAMA
        /\ gen[r].pc = "returned"
        /\ Len(gen[r].errs) = 2
        /\ gen[r].errs[1].kind = "ValueError"
        /\ gen[r].errs[2].kind = "AttributeError"

\* C11 (state): whatever the other request does, a request's retry state
\* and effects are its own: its messages are composed from its own
\* arguments, its errors are those of its own attempts in order, last_error
\* is the latest of them, it makes at most max_retries + 1 attempts and
\* exactly that many before it raises, it raises its own last error and
\* returns the content of its own last response; the engine is the one
\* construction left.
C11_OwnRetryState ==
    /\ startup = "serving" => llm = LLM_init(config, environ).self
    /\ \A r \in Requests :
           LET f == gen[r]
           IN  f.pc # "idle" =>
                   /\ f.messages = ComposedMessages(f)
                   /\ \A i \in 1..Len(f.sent) : f.sent[i].messages = f.messages
                   /\ \A i \in 1..Len(f.errs) : f.errs[i].attempt = i
                   /\ f.last_error = (IF f.errs = <<>> THEN NoError ELSE f.errs[Len(f.errs)])
                   /\ Len(f.sleeps) <= Len(f.errs)
                   /\ f.calls <= llm._max_retries + 1
                   /\ (f.pc = "raised" =>
                           /\ f.calls = llm._max_retries + 1
                           /\ Len(f.errs) = f.calls
                           /\ f.raised = f.errs[Len(f.errs)])
                   /\ (f.pc = "returned" =>
                           /\ f.ret = f.answer.content
                           /\ f.calls = Len(f.errs) + 1)

\* C11 (step): a step of one request changes nothing of the other, and no
\* step of a request changes the engine or the configuration.
C11_NoInterference ==
    /\ \A r, q \in Requests : (r # q /\ gen'[r] # gen[r]) => gen'[q] = gen[q]
    /\ startup = "serving" => (llm' = llm /\ config' = config /\ environ' = environ)

\* C11: generate requests on the shared engine are independent, run one
\* after another or interleaved: own retry state, own full budget, no
\* effect on each other's attempts, messages, result or error, and no
\* change of the engine's configuration.
C11_IndependentRequests == []C11_OwnRetryState /\ [][C11_NoInterference]_vars

C11_Witness ==
    /\ gen[1].pc = "sleep" /\ gen[1].last_error.kind = "Timeout"
    /\ gen[2].pc = "call" /\ gen[2].attempt = 1 /\ gen[2].last_error.kind = "HTTPError"
    /\ gen[1].messages # gen[2].messages

\* C19 (bound): a call never makes more than max_retries + 1 attempts
\* (none when that is not positive).
C19_AttemptBound ==
    \A r \in Requests :
        startup = "serving" =>
            gen[r].calls <= (IF llm._max_retries >= 0 THEN llm._max_retries + 1 ELSE 0)

\* C19: when every network call is answered and every sleep ends, a call
\* that waits or sleeps is eventually resolved (returned or raised), after
\* at most max_retries + 1 attempts.
C19_Terminates ==
    /\ \A r \in Requests :
           (gen[r].pc \in {"call", "sleep"}) ~> (gen[r].pc \in {"returned", "raised"})
    /\ []C19_AttemptBound

C19_Witness ==
    \E r \in Requests :
        /\ gen[r].pc = "raised"
        /\ llm._max_retries = 2
        /\ gen[r].calls = 3
        /\ Len(gen[r].sleeps) = 2

\* the stories among the given items that have both a title and a url, in order
RECURSIVE CompleteStories(_)
CompleteStories(items) ==
    IF items = <<>> THEN <<>>
    ELSE (IF {"title", "url"} \subseteq DOMAIN Head(items)
          THEN << [ id |-> Head(items).id, title |-> Head(items).title,
                    url |-> Head(items).url,
                    score |-> IF "score" \in DOMAIN Head(items) THEN Head(items).score ELSE None,
                    by |-> IF "by" \in DOMAIN Head(items) THEN Head(items).by ELSE None,
                    time |-> IF "time" \in DOMAIN Head(items) THEN Head(items).time ELSE None,
                    descendants |-> IF "descendants" \in DOMAIN Head(items)
                                    THEN Head(items).descendants ELSE 0 ] >>
          ELSE <<>>) \o CompleteStories(Tail(items))

\* C15 (for a limit >= 0, as every caller gives): get_top_stories never
\* raises; when the ID list request or an item request failed, or a body
\* was not of the expected shape, it returns the empty list, whatever it had
\* collected; otherwise it has requested exactly the first `limit` IDs of
\* the list, in order, and returns the stories among their items that have
\* both title and url, in that order; the result has at most `limit` entries.
C15_TopStories ==
    /\ hn.pc # "raised" /\ hn.raised = NoError
    /\ hn.pc = "returned" =>
           /\ Len(hn.ret) <= hn.limit
           /\ (hn.caught # NoError => hn.ret = <<>>)
           /\ (hn.caught = NoError =>
                   /\ hn.fetched = SubSeq(hn.listed, 1,
                                          IF hn.limit < Len(hn.listed) THEN hn.limit
                                          ELSE Len(hn.listed))
                   /\ Len(hn.items) = Len(hn.fetched)
                   /\ \A i \in 1..Len(hn.items) : hn.items[i].id = hn.fetched[i]
                   /\ hn.ret = CompleteStories(hn.items))

C15_Witness ==
    /\ hn.pc = "returned"
    /\ hn.caught = Exc("TypeError", 0)
    /\ Len(hn.stories) = 2
    /\ hn.ret = <<>>
    /\ hn.limit = 3

====
